---------------------------- MODULE Spec2Model ----------------------------
(***************************************************************************)
(* A model of yalue/image_combiner: the colour-accumulation tool           *)
(* (src/image_combiner.go lines 1-353) and the channel-assignment tool     *)
(* (lines 355-510).                                                        *)
(*                                                                         *)
(* float32 values are modelled exactly.  Every float32 the program can     *)
(* produce here is zero or a normal number far from the exponent limits,   *)
(* so a value is a record [m, e] standing for m * 2^e with either m = 0,   *)
(* e = 0 or 2^23 <= m < 2^24, and every operation rounds to nearest, ties  *)
(* to even, as IEEE-754 single precision does.  TLC's integers are 32 bits *)
(* wide, so the 48-bit products are computed in 12-bit limbs.              *)
(***************************************************************************)
EXTENDS Integers, Sequences, FiniteSets, TLC

---------------------------------------------------------------------------
(* float32 *)

Pow2(n) == 2 ^ n

\* Number of significant bits of x, 0 <= x < 2^30.
BitLen(x) == CHOOSE n \in 0..30 : x < Pow2(n) /\ (n = 0 \/ Pow2(n - 1) <= x)

FZero == [m |-> 0, e |-> 0]

\* The float32 nearest to (M + s) * 2^e, where 0 <= M < 2^30, and s is a
\* fraction with 0 < s < 1 when sticky holds and s = 0 otherwise.  A caller
\* that sets sticky supplies at least 26 bits in M.
FRound(M, e, sticky) ==
  IF M = 0 THEN FZero
  ELSE LET n == BitLen(M) IN
    IF n <= 24 THEN [m |-> M * Pow2(24 - n), e |-> e - (24 - n)]
    ELSE LET sh   == n - 24
             q    == M \div Pow2(sh)
             rem  == M % Pow2(sh)
             half == Pow2(sh - 1)
             up   == \/ rem > half
                     \/ rem = half /\ sticky
                     \/ rem = half /\ ~sticky /\ q % 2 = 1
             q2   == IF up THEN q + 1 ELSE q
         IN IF q2 = Pow2(24) THEN [m |-> Pow2(23), e |-> e + sh + 1]
                             ELSE [m |-> q2, e |-> e + sh]

\* float32(n) for an integer 0 <= n < 2^24 (exact).
FFromInt(n) == FRound(n, 0, FALSE)

FOne == FFromInt(1)

\* a + b in float32.
FAdd(a, b) ==
  IF a.m = 0 THEN b
  ELSE IF b.m = 0 THEN a
  ELSE LET hi == IF a.e >= b.e THEN a ELSE b
           lo == IF a.e >= b.e THEN b ELSE a
           d  == hi.e - lo.e
       IN IF d > 26 THEN hi
          ELSE LET L  == (lo.m * 8) \div Pow2(d)
                   st == ((lo.m * 8) % Pow2(d)) # 0
               IN FRound(hi.m * 8 + L, hi.e - 3, st)

\* a * b in float32: the 48-bit product of the mantissas in 12-bit limbs.
FMul(a, b) ==
  IF a.m = 0 \/ b.m = 0 THEN FZero
  ELSE LET ah  == a.m \div 4096
           al  == a.m % 4096
           bh  == b.m \div 4096
           bl  == b.m % 4096
           mid == ah * bl + al * bh
           los == (mid % 4096) * 4096 + al * bl
           lo  == los % Pow2(24)
           hi  == ah * bh + mid \div 4096 + los \div Pow2(24)
       IN FRound(hi * 32 + lo \div Pow2(19), a.e + b.e + 19,
                 (lo % Pow2(19)) # 0)

\* The long division behind FDivInt: q and r are the quotient bits and the
\* remainder so far, k the number of fraction bits produced.
RECURSIVE DivBits(_, _, _, _)
DivBits(q, r, k, D) ==
  IF q >= Pow2(26) THEN [q |-> q, r |-> r, k |-> k]
  ELSE LET r2  == 2 * r
           bit == IF r2 >= D THEN 1 ELSE 0
       IN DivBits(2 * q + bit, r2 - bit * D, k + 1, D)

\* float32(n) / float32(D) for integers 0 <= n < 2^24, 0 < D < 2^24 that
\* float32 holds exactly: the correctly rounded quotient n / D.
FDivInt(n, D) ==
  IF n = 0 THEN FZero
  ELSE LET z == DivBits(n \div D, n % D, 0, D)
       IN FRound(z.q, 0 - z.k, z.r # 0)

\* a >= 1.0
FGeOne(a) == a.m # 0 /\ a.e >= -23

\* uint32(a) for a >= 0: truncation toward zero.
FToUint(a) ==
  IF a.m = 0 THEN 0
  ELSE IF a.e >= 0 THEN a.m * Pow2(a.e)
  ELSE IF a.e < -30 THEN 0
  ELSE a.m \div Pow2(0 - a.e)

---------------------------------------------------------------------------
(* floatColor *)

MaxChannel == 65535

FC(r, g, b) == [r |-> r, g |-> g, b |-> b]

FCBlack == FC(FZero, FZero, FZero)

\* convertToFloatColor for a colour that is not a floatColor: the 16-bit
\* channels of its RGBA() over 0xffff.
convertToFloatColor(rgb) ==
  FC(FDivInt(rgb.r, MaxChannel), FDivInt(rgb.g, MaxChannel),
     FDivInt(rgb.b, MaxChannel))

\* floatColor.Add with a floatColor argument (convertToFloatColor returns a
\* floatColor as it is).
floatColorAdd(c, toAdd) ==
  FC(FAdd(c.r, toAdd.r), FAdd(c.g, toAdd.g), FAdd(c.b, toAdd.b))

\* floatColor.Scale
floatColorScale(c, scale) ==
  FC(FMul(c.r, scale), FMul(c.g, scale), FMul(c.b, scale))

\* floatColor.RGBA without the test against 1.0.
ChannelRGBANoClamp(x) == FToUint(FMul(x, FFromInt(MaxChannel)))

\* One channel of floatColor.RGBA.
ChannelRGBA(x) ==
  IF FGeOne(x) THEN MaxChannel ELSE FToUint(FMul(x, FFromInt(MaxChannel)))

\* floatColor.RGBA (alpha is always 0xffff).
floatColorRGBA(c) ==
  [r |-> ChannelRGBA(c.r), g |-> ChannelRGBA(c.g), b |-> ChannelRGBA(c.b)]

---------------------------------------------------------------------------
(* Strings.  A Go string is a sequence of one-character strings, so that   *)
(* len, TrimPrefix, ToLower and ParseUint work on its characters.          *)

Lowers == <<"a","b","c","d","e","f","g","h","i","j","k","l","m",
            "n","o","p","q","r","s","t","u","v","w","x","y","z">>
Uppers == <<"A","B","C","D","E","F","G","H","I","J","K","L","M",
            "N","O","P","Q","R","S","T","U","V","W","X","Y","Z">>
HexDigits == <<"0","1","2","3","4","5","6","7","8","9",
               "a","b","c","d","e","f">>

ToLowerChar(c) ==
  IF \E i \in 1..26 : Uppers[i] = c
    THEN Lowers[CHOOSE i \in 1..26 : Uppers[i] = c]
    ELSE c

\* strings.ToLower
ToLower(s) == [i \in 1..Len(s) |-> ToLowerChar(s[i])]

\* parseFloatColor without the TrimPrefix.
TrimPrefixNone(value) == value

\* strings.TrimPrefix(value, "#")
TrimPrefixHash(value) ==
  IF Len(value) >= 1 /\ value[1] = "#" THEN Tail(value) ELSE value

IsHexChar(c) == \E i \in 1..16 : HexDigits[i] = ToLowerChar(c)

HexValue(c) == (CHOOSE i \in 1..16 : HexDigits[i] = ToLowerChar(c)) - 1

\* The number a string of at most 6 hex digits denotes.
RECURSIVE HexNum(_)
HexNum(s) ==
  IF Len(s) = 0 THEN 0
  ELSE 16 * HexNum(SubSeq(s, 1, Len(s) - 1)) + HexValue(s[Len(s)])

\* strconv.ParseUint(value, 16, bitSize) for a value of at most 12 digits
\* (no range error is possible then): it fails on the empty string and on
\* any character that is not a hex digit.  The 64-bit result is held as two
\* 24-bit limbs, parsed = hi * 2^24 + lo.
ParseUint16(value) ==
  IF Len(value) = 0 \/ \E i \in 1..Len(value) : ~IsHexChar(value[i])
    THEN [ok |-> FALSE, hi |-> 0, lo |-> 0]
    ELSE IF Len(value) <= 6
      THEN [ok |-> TRUE, hi |-> 0, lo |-> HexNum(value)]
      ELSE [ok |-> TRUE, hi |-> HexNum(SubSeq(value, 1, Len(value) - 6)),
            lo |-> HexNum(SubSeq(value, Len(value) - 5, Len(value)))]

---------------------------------------------------------------------------
(* The colour parser *)

ParseOk(c) == [ok |-> TRUE, c |-> c]
ParseErr   == [ok |-> FALSE, c |-> FCBlack]

\* parse24BitColor
parse24BitColor(value) ==
  LET p == ParseUint16(value) IN
  IF ~p.ok THEN ParseErr
  ELSE ParseOk(FC(FDivInt((p.lo \div 65536) % 256, 255),
                  FDivInt((p.lo \div 256) % 256, 255),
                  FDivInt(p.lo % 256, 255)))

\* parse48BitColor: (parsed>>32)&0xffff, (parsed>>16)&0xffff, parsed&0xffff
\* taken from the two limbs.
parse48BitColor(value) ==
  LET p == ParseUint16(value) IN
  IF ~p.ok THEN ParseErr
  ELSE ParseOk(FC(FDivInt((p.hi \div 256) % 65536, MaxChannel),
                  FDivInt(((p.hi % 256) * 256 + p.lo \div 65536) % 65536,
                          MaxChannel),
                  FDivInt(p.lo % 65536, MaxChannel)))

\* Some entries of golang.org/x/image/colornames.Map (8-bit R, G, B, A).
RGBA8(r, g, b, a) == [r |-> r, g |-> g, b |-> b, a |-> a]

colornamesMap ==
  (<<"r","e","d">> :> RGBA8(255, 0, 0, 255)) @@
  (<<"g","r","e","e","n">> :> RGBA8(0, 128, 0, 255)) @@
  (<<"b","l","a","c","k">> :> RGBA8(0, 0, 0, 255)) @@
  (<<"w","h","i","t","e">> :> RGBA8(255, 255, 255, 255)) @@
  (<<"b","l","u","e","v","i","o","l","e","t">> :> RGBA8(138, 43, 226, 255))

\* color.RGBA.RGBA: each 8-bit channel c becomes c | c<<8.
RGBA8To16(c) == [r |-> c.r * 257, g |-> c.g * 257, b |-> c.b * 257,
                 a |-> c.a * 257]

\* parseNamedColor: a missing key gives the zero colour, whose alpha is 0.
parseNamedColor(name) ==
  LET lower      == ToLower(name)
      namedColor == IF lower \in DOMAIN colornamesMap
                      THEN colornamesMap[lower] ELSE RGBA8(0, 0, 0, 0)
      c16        == RGBA8To16(namedColor)
  IN [ok |-> c16.a # 0, c |-> convertToFloatColor(c16)]

\* parseFloatColor
parseFloatColor(value) ==
  LET named == parseNamedColor(value) IN
  IF named.ok THEN ParseOk(named.c)
  ELSE LET v == TrimPrefixHash(value) IN
       IF Len(v) = 6 THEN parse24BitColor(v)
       ELSE IF Len(v) = 12 THEN parse48BitColor(v)
       ELSE ParseErr

---------------------------------------------------------------------------
(* Decoded images.  image.Decode gives an image whose bounds start at      *)
(* (0, 0) (true of the PNG, JPEG, BMP and netpbm decoders) and whose       *)
(* At(x, y).RGBA() is a triple of 16-bit channels; px holds them row by    *)
(* row.                                                                    *)

Pix(r, g, b) == [r |-> r, g |-> g, b |-> b]

Img(w, h, px) == [w |-> w, h |-> h, px |-> px]

\* pic.At(x, y).RGBA() for (x, y) inside the bounds of pic.
PicAt(pic, x, y) == pic.px[(y * pic.w) + x + 1]

\* convertToBrightness: float32(r+g+b) / (3.0 * 65535.0)
convertToBrightness(c) == FDivInt(c.r + c.g + c.b, 3 * MaxChannel)

\* convertToGrayscale: (r + g + b) / 3 in uint32
convertToGrayscale(c) == (c.r + c.g + c.b) \div 3

---------------------------------------------------------------------------
(* floatColorImage, the accumulation tool's canvas *)

OutOfBounds(f, x, y) == (x < 0) \/ (y < 0) \/ (x >= f.w) \/ (y >= f.h)

\* newFloatColorImage
newFloatColorImage(w, h) ==
  IF (w <= 0) \/ (h <= 0)
    THEN [ok |-> FALSE, img |-> [w |-> 0, h |-> 0, pixels |-> <<>>]]
    ELSE [ok |-> TRUE,
          img |-> [w |-> w, h |-> h, pixels |-> [k \in 1..(w * h) |-> FCBlack]]]

\* floatColorImage.Add testing the index into pixels instead of x and y.
floatColorImageAddIndexOnly(f, x, y, toAdd) ==
  IF ((y * f.w) + x + 1) \in 1..Len(f.pixels)
    THEN [f EXCEPT !.pixels[(y * f.w) + x + 1] = floatColorAdd(@, toAdd)]
    ELSE f

\* floatColorImage.Add
floatColorImageAdd(f, x, y, toAdd) ==
  IF OutOfBounds(f, x, y) THEN f
  ELSE [f EXCEPT !.pixels[(y * f.w) + x + 1] = floatColorAdd(@, toAdd)]

\* floatColorImage.At followed by RGBA(): color.Black outside the bounds.
floatColorImageAtRGBA(f, x, y) ==
  IF OutOfBounds(f, x, y) THEN Pix(0, 0, 0)
  ELSE floatColorRGBA(f.pixels[(y * f.w) + x + 1])

\* The body of addColor's loops from the k-th pixel of pic on, rows outside
\* and columns inside: y = k / w, x = k % w.
RECURSIVE addColorFrom(_, _, _, _)
addColorFrom(dest, pic, colorValue, k) ==
  IF k >= pic.w * pic.h THEN dest
  ELSE LET x     == k % pic.w
           y     == k \div pic.w
           scale == convertToBrightness(PicAt(pic, x, y))
       IN addColorFrom(
            floatColorImageAdd(dest, x, y, floatColorScale(colorValue, scale)),
            pic, colorValue, k + 1)

\* addColor
addColor(dest, pic, colorValue) == addColorFrom(dest, pic, colorValue, 0)

---------------------------------------------------------------------------
(* image.RGBA64, the channel tool's canvas *)

RGBA64(r, g, b, a) == [r |-> r, g |-> g, b |-> b, a |-> a]

\* image.NewRGBA64(image.Rect(0, 0, w, h)): every channel zero.
NewRGBA64(w, h) ==
  [w |-> w, h |-> h, pixels |-> [k \in 1..(w * h) |-> RGBA64(0, 0, 0, 0)]]

\* RGBA64.RGBA64At: the zero colour outside the bounds.
RGBA64At(p, x, y) ==
  IF OutOfBounds(p, x, y) THEN RGBA64(0, 0, 0, 0)
  ELSE p.pixels[(y * p.w) + x + 1]

\* RGBA64.Set with a color.RGBA64: nothing outside the bounds.
RGBA64Set(p, x, y, c) ==
  IF OutOfBounds(p, x, y) THEN p
  ELSE [p EXCEPT !.pixels[(y * p.w) + x + 1] = c]

\* uint16(v)
Uint16(v) == v % 65536

\* setChannel writing the grayscale value to every channel.
withChannelAll(c, channel, grayscale) ==
  [c EXCEPT !.r = grayscale, !.g = grayscale, !.b = grayscale]

\* The switch of setChannel; channel 3 and up panics.
withChannel(c, channel, grayscale) ==
  CASE channel = 0 -> [c EXCEPT !.r = grayscale]
    [] channel = 1 -> [c EXCEPT !.g = grayscale]
    [] channel = 2 -> [c EXCEPT !.b = grayscale]
    [] OTHER       -> [panic |-> "Bad channel"]

RECURSIVE setChannelFrom(_, _, _, _)
setChannelFrom(dest, pic, channel, k) ==
  IF k >= pic.w * pic.h THEN dest
  ELSE LET x         == k % pic.w
           y         == k \div pic.w
           grayscale == Uint16(convertToGrayscale(PicAt(pic, x, y)))
           c         == RGBA64At(dest, x, y)
       IN setChannelFrom(
            RGBA64Set(dest, x, y, withChannel(c, channel, grayscale)),
            pic, channel, k + 1)

\* setChannel
setChannel(dest, pic, channel) == setChannelFrom(dest, pic, channel, 0)

---------------------------------------------------------------------------
(* The command line and the files *)

\* At most MaxPairs <image> <color> pairs on the accumulation tool's
\* command line.
MaxPairs == 3

ProgName == <<"i","c">>
PathD    == <<"d">>
PathW    == <<"w">>
PathG    == <<"g">>
OutTok   == <<"o">>

\* The image each input path decodes to, when it decodes: a 1x2 image, a 2x1
\* image and a 1x1 image.
Files ==
  (PathD :> Img(1, 2, <<Pix(13107, 13107, 13107), Pix(65535, 0, 0)>>)) @@
  (PathW :> Img(2, 1, <<Pix(65535, 65535, 65535), Pix(32896, 32896, 32896)>>)) @@
  (PathG :> Img(1, 1, <<Pix(65535, 32896, 0)>>))

AccumPaths   == {PathD, PathW}
ChannelPaths == {PathD, PathW, PathG}

ColorTokens == { <<"6","6","6","6","6","6">>, <<"9","9","9","9","9","9">>,
                 <<"r","e","d">>, <<"x","y","z","1","2","3">> }

\* The command lines of p pairs.
RECURSIVE PairSeqs(_)
PairSeqs(p) ==
  IF p = 0 THEN {<<>>}
  ELSE {s \o <<path, col>> :
          s \in PairSeqs(p - 1), path \in AccumPaths, col \in ColorTokens}

\* Accumulation tool command lines (after the program name): pairs, with or
\* without the output path after them.
ArgvSet ==
  UNION {PairSeqs(p) \cup {s \o <<OutTok>> : s \in PairSeqs(p)} :
           p \in 0..MaxPairs}

\* Channel tool flags; the empty string is a flag that was not given.
FlagSet ==
  [r : ChannelPaths \cup {<<>>}, g : ChannelPaths \cup {<<>>},
   b : ChannelPaths \cup {<<>>}, output : {OutTok, <<>>}]

NoFlags == [r |-> <<>>, g |-> <<>>, b |-> <<>>, output |-> <<>>]

---------------------------------------------------------------------------
(* parseArguments (accumulation tool)                                      *)

ArgsErr(msg) == [ok |-> FALSE, msg |-> msg, inputs |-> <<>>, outputName |-> <<>>]

\* parseArguments without the test of len(os.Args) % 2.
parseArgumentsNoParity(osArgs) ==
  IF Len(osArgs) <= 2
    THEN ArgsErr("at least one image/color must be provided")
  ELSE LET n         == (Len(osArgs) - 2) \div 2
           parsed(j) == parseFloatColor(osArgs[((j * 2) + 2) + 1])
       IN IF \E j \in 0..(n - 1) : ~parsed(j).ok
            THEN ArgsErr("Invalid color for image")
            ELSE [ok |-> TRUE, msg |-> "",
                  inputs |-> [k \in 1..n |->
                                [filename   |-> osArgs[(((k - 1) * 2) + 1) + 1],
                                 colorValue |-> parsed(k - 1).c]],
                  outputName |-> osArgs[Len(osArgs)]]

\* parseArguments on os.Args (osArgs[1] is the program name, so Go's
\* os.Args[k] is osArgs[k + 1]).
parseArguments(osArgs) ==
  IF Len(osArgs) <= 2
    THEN ArgsErr("at least one image/color must be provided")
  ELSE IF (Len(osArgs) % 2) # 0
    THEN ArgsErr("each image must have a corresponding color")
  ELSE LET n         == (Len(osArgs) - 2) \div 2
           parsed(j) == parseFloatColor(osArgs[((j * 2) + 2) + 1])
       IN IF \E j \in 0..(n - 1) : ~parsed(j).ok
            THEN ArgsErr("Invalid color for image")
            ELSE [ok |-> TRUE, msg |-> "",
                  inputs |-> [k \in 1..n |->
                                [filename   |-> osArgs[(((k - 1) * 2) + 1) + 1],
                                 colorValue |-> parsed(k - 1).c]],
                  outputName |-> osArgs[Len(osArgs)]]

---------------------------------------------------------------------------
(* The run of one tool *)

VARIABLES
  tool,        \* "accum" or "channel": which program runs
  argv,        \* accum: os.Args[1:]
  flags,       \* channel: the values of -r, -g, -b, -output
  pc,          \* where the run is
  imageFiles,  \* the argument of combineImages
  outputName,
  i,           \* 1-based index of the loop in progress
  maxW, maxH,  \* getMaxDimensions' running maxima
  dims,        \* what getMaxDimensions returned, once it has
  handles,     \* the input file handles that are open
  combined,    \* the canvas, once allocated
  outFile,     \* "absent", "open" or "closed": the output file
  outPixels,   \* what the encoder read from the canvas: At(x, y).RGBA()
  exitCode,    \* -1 while running
  printed,     \* the messages on standard output
  ioLog,       \* the os.Open and image.Decode calls on input files, in order
  token,       \* the colour parser alone: its argument
  parseResult, \* the colour parser alone: <<its result>>, once it has run
  cv,          \* the canvas alone: a floatColorImage
  cvOps        \* the canvas alone: the operations applied to it

cmdVars    == <<tool, argv, flags>>
runVars    == <<pc, imageFiles, outputName, i, maxW, maxH, dims, handles,
                combined, outFile, outPixels, exitCode, printed, ioLog>>
parserVars == <<token, parseResult>>
canvasVars == <<cv, cvOps>>
vars       == <<cmdVars, runVars, parserVars, canvasVars>>

NoDims   == [w |-> -1, h |-> -1, err |-> FALSE, returned |-> FALSE]
NoCanvas == [w |-> 0, h |-> 0, pixels |-> <<>>]

RunInit ==
  /\ pc = "start"
  /\ imageFiles = <<>>
  /\ outputName = <<>>
  /\ i = 0
  /\ maxW = 0
  /\ maxH = 0
  /\ dims = NoDims
  /\ handles = <<>>
  /\ combined = NoCanvas
  /\ outFile = "absent"
  /\ outPixels = <<>>
  /\ exitCode = -1
  /\ printed = <<>>
  /\ ioLog = <<>>

ParserIdle == token = <<>> /\ parseResult = <<>>
CanvasIdle == cv = NoCanvas /\ cvOps = <<>>

Init ==
  /\ \/ tool = "accum" /\ argv \in ArgvSet /\ flags = NoFlags
     \/ tool = "channel" /\ argv = <<>> /\ flags \in FlagSet
  /\ RunInit
  /\ ParserIdle
  /\ CanvasIdle

FileName(k) ==
  IF tool = "accum" THEN imageFiles[k].filename ELSE imageFiles[k]

Event(op, pass, k, ok) == [op |-> op, pass |-> pass, i |-> k, ok |-> ok]

\* run's "Error combining images" branch: return 1.
ExitCombineError ==
  /\ pc' = "exit"
  /\ exitCode' = 1
  /\ printed' = Append(printed, "Error combining images")

\* run of the accumulation tool up to the call of combineImages.
RunAccum ==
  /\ tool = "accum"
  /\ pc = "start"
  /\ LET r == parseArguments(<<ProgName>> \o argv) IN
       IF ~r.ok
         THEN /\ pc' = "exit"
              /\ exitCode' = 1
              /\ printed' = printed \o <<"Failed parsing arguments", "Usage">>
              /\ UNCHANGED <<imageFiles, outputName, i>>
         ELSE /\ imageFiles' = r.inputs
              /\ outputName' = r.outputName
              /\ pc' = "dimsOpen"
              /\ i' = 1
              /\ UNCHANGED <<exitCode, printed>>
  /\ UNCHANGED <<maxW, maxH, dims, handles, combined, outFile, outPixels,
                 ioLog>>
  /\ UNCHANGED <<cmdVars, parserVars, canvasVars>>

\* The three paths in the order blue, green, red.
channelFilesBGR(fl) == <<fl.b, fl.g, fl.r>>

\* The slice run passes to combineImages: []string{redName, greenName,
\* blueName}.
channelFiles(fl) == <<fl.r, fl.g, fl.b>>

\* run of the channel tool up to the call of getMaxDimensions.
RunChannel ==
  /\ tool = "channel"
  /\ pc = "start"
  /\ IF (flags.r = <<>>) \/ (flags.g = <<>>) \/ (flags.b = <<>>)
       THEN /\ pc' = "exit"
            /\ exitCode' = 1
            /\ printed' = printed \o <<"An image must be supplied for every color",
                                       "Run with -h for more information">>
            /\ UNCHANGED <<imageFiles, outputName, i>>
     ELSE IF flags.output = <<>>
       THEN /\ pc' = "exit"
            /\ exitCode' = 1
            /\ printed' = printed \o <<"An output filename is required",
                                       "Run with -h for more information">>
            /\ UNCHANGED <<imageFiles, outputName, i>>
     ELSE LET files == channelFiles(flags) IN
          IF Len(files) > 3
            THEN /\ ExitCombineError
                 /\ UNCHANGED <<imageFiles, outputName, i>>
            ELSE /\ imageFiles' = files
                 /\ outputName' = flags.output
                 /\ pc' = "dimsOpen"
                 /\ i' = 1
                 /\ UNCHANGED <<exitCode, printed>>
  /\ UNCHANGED <<maxW, maxH, dims, handles, combined, outFile, outPixels,
                 ioLog>>
  /\ UNCHANGED <<cmdVars, parserVars, canvasVars>>

\* f.Close() on the handle opened last.
CloseHandle(h) == SubSeq(h, 1, Len(h) - 1)

\* getMaxDimensions returning the maxima so far along with the error.
DimsFailurePartial(mw, mh) ==
  [w |-> mw, h |-> mh, err |-> TRUE, returned |-> TRUE]

\* What getMaxDimensions returns on an open or decode failure: 0, 0, error.
DimsFailure(mw, mh) == [w |-> 0, h |-> 0, err |-> TRUE, returned |-> TRUE]

\* What getMaxDimensions returns after its loop.
DimsSuccess(mw, mh) == [w |-> mw, h |-> mh, err |-> FALSE, returned |-> TRUE]

\* getMaxDimensions, one iteration up to os.Open.  A failure returns through
\* combineImages to run, which prints and returns 1.
DimsOpen ==
  /\ pc = "dimsOpen"
  /\ i <= Len(imageFiles)
  /\ \E ok \in BOOLEAN :
       /\ ioLog' = Append(ioLog, Event("open", "dims", i, ok))
       /\ IF ok
            THEN /\ handles' = Append(handles, FileName(i))
                 /\ pc' = "dimsDecode"
                 /\ printed' = Append(printed, "Getting dimensions")
                 /\ UNCHANGED <<dims, exitCode>>
            ELSE /\ dims' = DimsFailure(maxW, maxH)
                 /\ pc' = "exit"
                 /\ exitCode' = 1
                 /\ printed' = printed \o <<"Getting dimensions",
                                            "Error combining images">>
                 /\ UNCHANGED handles
  /\ UNCHANGED <<imageFiles, outputName, i, maxW, maxH, combined, outFile,
                 outPixels>>
  /\ UNCHANGED <<cmdVars, parserVars, canvasVars>>

\* getMaxDimensions' decode failure without the f.Close().
DimsDecodeFailNoClose(h) == h

\* The handles after getMaxDimensions' decode failure: f.Close().
DimsDecodeFailHandles(h) == CloseHandle(h)

\* getMaxDimensions taking the height along with a new largest width.
updateMaxCoupled(mw, mh, w, h) ==
  IF w > mw THEN [w |-> w, h |-> h] ELSE [w |-> mw, h |-> mh]

\* getMaxDimensions' two updates: if w > maxW { maxW = w }; if h > maxH
\* { maxH = h }.
updateMax(mw, mh, w, h) ==
  [w |-> IF w > mw THEN w ELSE mw, h |-> IF h > mh THEN h ELSE mh]

\* getMaxDimensions, the rest of the iteration: image.Decode, the bounds,
\* f.Close() and the two maxima.
DimsDecode ==
  /\ pc = "dimsDecode"
  /\ \E ok \in BOOLEAN :
       IF ok
         THEN LET pic == Files[FileName(i)]
                  w   == pic.w
                  h   == pic.h
              IN /\ ioLog' = Append(ioLog, Event("decode", "dims", i, TRUE))
                 /\ handles' = CloseHandle(handles)
                 /\ maxW' = updateMax(maxW, maxH, w, h).w
                 /\ maxH' = updateMax(maxW, maxH, w, h).h
                 /\ i' = i + 1
                 /\ pc' = "dimsOpen"
                 /\ UNCHANGED <<dims, exitCode, printed>>
         ELSE /\ ioLog' = Append(ioLog, Event("decode", "dims", i, FALSE))
              /\ handles' = DimsDecodeFailHandles(handles)
              /\ dims' = DimsFailure(maxW, maxH)
              /\ pc' = "exit"
              /\ exitCode' = 1
              /\ printed' = Append(printed, "Error combining images")
              /\ UNCHANGED <<maxW, maxH, i>>
  /\ UNCHANGED <<imageFiles, outputName, combined, outFile, outPixels>>
  /\ UNCHANGED <<cmdVars, parserVars, canvasVars>>

\* The end of getMaxDimensions' loop and combineImages up to its own loop:
\* the canvas is allocated with the returned dimensions.
AllocCanvas ==
  /\ pc = "dimsOpen"
  /\ i > Len(imageFiles)
  /\ LET d == DimsSuccess(maxW, maxH) IN
     /\ dims' = d
     /\ IF tool = "accum"
          THEN LET c == newFloatColorImage(d.w, d.h) IN
               IF ~c.ok
                 THEN /\ pc' = "exit"
                      /\ exitCode' = 1
                      /\ printed' = printed \o <<"Combining images",
                                                 "Error combining images">>
                      /\ UNCHANGED <<combined, i>>
                 ELSE /\ combined' = c.img
                      /\ pc' = "combOpen"
                      /\ i' = 1
                      /\ printed' = Append(printed, "Combining images")
                      /\ UNCHANGED exitCode
          ELSE /\ combined' = NewRGBA64(d.w, d.h)
               /\ pc' = "combOpen"
               /\ i' = 1
               /\ printed' = Append(printed, "Combining images")
               /\ UNCHANGED exitCode
  /\ UNCHANGED <<imageFiles, outputName, maxW, maxH, handles, outFile,
                 outPixels, ioLog>>
  /\ UNCHANGED <<cmdVars, parserVars, canvasVars>>

\* combineImages, one iteration up to os.Open.
CombOpen ==
  /\ pc = "combOpen"
  /\ i <= Len(imageFiles)
  /\ \E ok \in BOOLEAN :
       /\ ioLog' = Append(ioLog, Event("open", "comb", i, ok))
       /\ IF ok
            THEN /\ handles' = Append(handles, FileName(i))
                 /\ pc' = "combDecode"
                 /\ printed' = Append(printed, "Setting")
                 /\ UNCHANGED exitCode
            ELSE /\ pc' = "exit"
                 /\ exitCode' = 1
                 /\ printed' = printed \o <<"Setting", "Error combining images">>
                 /\ UNCHANGED handles
  /\ UNCHANGED <<imageFiles, outputName, i, maxW, maxH, dims, combined,
                 outFile, outPixels>>
  /\ UNCHANGED <<cmdVars, parserVars, canvasVars>>

\* The handles after combineImages' decode failure: f.Close().
CombDecodeFailHandles(h) == CloseHandle(h)

\* combineImages' decode failure: f.Close() and the error, up to run's
\* return 1.
CombDecodeFail ==
  /\ ioLog' = Append(ioLog, Event("decode", "comb", i, FALSE))
  /\ handles' = CombDecodeFailHandles(handles)
  /\ ExitCombineError
  /\ UNCHANGED <<combined, i>>

\* The next canvas of the accumulation tool's combineImages iteration.
AccumFold(dest, input) == addColor(dest, Files[input.filename], input.colorValue)

\* combineImages of the accumulation tool, the rest of the iteration:
\* image.Decode, addColor, f.Close().
CombDecodeAccum ==
  /\ tool = "accum"
  /\ pc = "combDecode"
  /\ \E ok \in BOOLEAN :
       IF ok
         THEN /\ combined' = AccumFold(combined, imageFiles[i])
              /\ ioLog' = Append(ioLog, Event("decode", "comb", i, TRUE))
              /\ handles' = CloseHandle(handles)
              /\ i' = i + 1
              /\ pc' = "combOpen"
              /\ UNCHANGED <<exitCode, printed>>
         ELSE CombDecodeFail
  /\ UNCHANGED <<imageFiles, outputName, maxW, maxH, dims, outFile, outPixels>>
  /\ UNCHANGED <<cmdVars, parserVars, canvasVars>>

\* The next canvas of the channel tool's combineImages iteration: the k-th
\* file (k from 1) sets channel k - 1.
ChannelFold(dest, filename, k) == setChannel(dest, Files[filename], k - 1)

\* combineImages of the channel tool, the rest of the iteration:
\* image.Decode, setChannel, f.Close().
CombDecodeChannel ==
  /\ tool = "channel"
  /\ pc = "combDecode"
  /\ \E ok \in BOOLEAN :
       IF ok
         THEN /\ combined' = ChannelFold(combined, imageFiles[i], i)
              /\ ioLog' = Append(ioLog, Event("decode", "comb", i, TRUE))
              /\ handles' = CloseHandle(handles)
              /\ i' = i + 1
              /\ pc' = "combOpen"
              /\ UNCHANGED <<exitCode, printed>>
         ELSE CombDecodeFail
  /\ UNCHANGED <<imageFiles, outputName, maxW, maxH, dims, outFile, outPixels>>
  /\ UNCHANGED <<cmdVars, parserVars, canvasVars>>

\* combineImages returns the canvas and run calls os.Create.
CreateOutput ==
  /\ pc = "combOpen"
  /\ i > Len(imageFiles)
  /\ \E ok \in BOOLEAN :
       IF ok
         THEN /\ outFile' = "open"
              /\ pc' = "encode"
              /\ UNCHANGED <<exitCode, printed>>
         ELSE /\ pc' = "exit"
              /\ exitCode' = 1
              /\ printed' = Append(printed, "Error opening output file")
              /\ UNCHANGED outFile
  /\ UNCHANGED <<imageFiles, outputName, i, maxW, maxH, dims, handles,
                 combined, outPixels, ioLog>>
  /\ UNCHANGED <<cmdVars, parserVars, canvasVars>>

\* What jpeg.Encode reads: At(x, y).RGBA() of every pixel of the canvas, row
\* by row.  A floatColor renders through floatColor.RGBA; an RGBA64 pixel
\* gives its channels as they are.
Render(t, img) ==
  [k \in 1..(img.w * img.h) |->
     IF t = "accum"
       THEN floatColorImageAtRGBA(img, (k - 1) % img.w, (k - 1) \div img.w)
       ELSE LET c == RGBA64At(img, (k - 1) % img.w, (k - 1) \div img.w)
            IN Pix(c.r, c.g, c.b)]

\* jpeg.Encode, the deferred outputFile.Close() and run's return.
Encode ==
  /\ pc = "encode"
  /\ \E ok \in BOOLEAN :
       IF ok
         THEN /\ outPixels' = Render(tool, combined)
              /\ exitCode' = 0
              /\ UNCHANGED printed
         ELSE /\ exitCode' = 1
              /\ printed' = Append(printed, "Failed creating output JPEG image")
              /\ UNCHANGED outPixels
  /\ outFile' = "closed"
  /\ pc' = "exit"
  /\ UNCHANGED <<imageFiles, outputName, i, maxW, maxH, dims, handles,
                 combined, ioLog>>
  /\ UNCHANGED <<cmdVars, parserVars, canvasVars>>

Next ==
  \/ RunAccum
  \/ RunChannel
  \/ DimsOpen
  \/ DimsDecode
  \/ AllocCanvas
  \/ CombOpen
  \/ CombDecodeAccum
  \/ CombDecodeChannel
  \/ CreateOutput
  \/ Encode

Spec == Init /\ [][Next]_vars

---------------------------------------------------------------------------
(* Properties of a run *)

NumInputs == Len(imageFiles)

\* The image the k-th input decodes to.
InputPic(k) == Files[FileName(k)]

SetMax(S) == CHOOSE m \in S : \A x \in S : x <= m

Coords(img) == (0..(img.w - 1)) \X (0..(img.h - 1))

Covers(pic, x, y) == x >= 0 /\ y >= 0 /\ x < pic.w /\ y < pic.h

RGB == {"r", "g", "b"}

\* The maxima getMaxDimensions keeps over a list of sizes.
RECURSIVE MaxOver(_)
MaxOver(sizes) ==
  IF Len(sizes) = 0 THEN [w |-> 0, h |-> 0]
  ELSE LET m == MaxOver(SubSeq(sizes, 1, Len(sizes) - 1))
       IN updateMax(m.w, m.h, sizes[Len(sizes)].w, sizes[Len(sizes)].h)

\* C4: once getMaxDimensions has returned without error, the width it
\* returned is the largest input width and the height the largest input
\* height, each over all inputs, and the canvas has exactly that size;
\* sizes 10x20, 30x5 and 2x2 give 30x20.
C4_MaxDimensions ==
  /\ MaxOver(<<[w |-> 10, h |-> 20], [w |-> 30, h |-> 5], [w |-> 2, h |-> 2]>>)
       = [w |-> 30, h |-> 20]
  /\ (dims.returned /\ ~dims.err) =>
       /\ NumInputs >= 1
       /\ dims.w = SetMax({InputPic(k).w : k \in 1..NumInputs})
       /\ dims.h = SetMax({InputPic(k).h : k \in 1..NumInputs})
       /\ combined # NoCanvas
  /\ (combined # NoCanvas) =>
       /\ dims.returned /\ ~dims.err
       /\ combined.w = dims.w
       /\ combined.h = dims.h
       /\ Len(combined.pixels) = dims.w * dims.h

\* Three inputs none of which has both maxima, sized and allocated.
C4_Witness ==
  /\ dims.returned /\ ~dims.err
  /\ combined # NoCanvas
  /\ NumInputs = 3
  /\ \A k \in 1..NumInputs : InputPic(k).w < dims.w \/ InputPic(k).h < dims.h
  /\ dims.w = 2 /\ dims.h = 2

Chan(c, ch) == CASE ch = 0 -> c.r [] ch = 1 -> c.g [] ch = 2 -> c.b

\* What one setChannel pass of the channel tool does to the canvas.
ChannelPassOK ==
  LET pic == InputPic(i)
      ch  == i - 1
  IN /\ combined'.w = combined.w /\ combined'.h = combined.h
     /\ pic.w <= combined.w /\ pic.h <= combined.h
     /\ \A xy \in Coords(combined) :
          LET old  == RGBA64At(combined, xy[1], xy[2])
              new  == RGBA64At(combined', xy[1], xy[2])
              p    == PicAt(pic, xy[1], xy[2])
              gray == (p.r + p.g + p.b) \div 3
          IN IF Covers(pic, xy[1], xy[2])
               THEN /\ gray <= MaxChannel
                    /\ Chan(new, ch) = gray
                    /\ \A o \in (0..2) \ {ch} : Chan(new, o) = Chan(old, o)
               ELSE new = old

\* After the three passes a pixel covered by all three inputs holds the
\* three grayscale values.
ChannelResultOK ==
  (tool = "channel" /\ pc \in {"combOpen", "encode", "exit"}
     /\ combined # NoCanvas /\ i > 3) =>
    \A xy \in Coords(combined) :
      (\A k \in 1..3 : Covers(InputPic(k), xy[1], xy[2])) =>
        \A k \in 1..3 :
          Chan(RGBA64At(combined, xy[1], xy[2]), k - 1)
            = convertToGrayscale(PicAt(InputPic(k), xy[1], xy[2]))

ParseArgumentsOK ==
  LET n        == Len(argv)
      accepted == /\ n % 2 = 1
                  /\ n >= 3
                  /\ \A k \in 1..((n - 1) \div 2) :
                       parseFloatColor(argv[2 * k]).ok
  IN IF accepted
       THEN /\ imageFiles' =
                 [k \in 1..((n - 1) \div 2) |->
                    [filename   |-> argv[(2 * k) - 1],
                     colorValue |-> parseFloatColor(argv[2 * k]).c]]
            /\ outputName' = argv[n]
            /\ pc' = "dimsOpen"
       ELSE /\ imageFiles' = <<>>
            /\ pc' = "exit"
            /\ exitCode' = 1
            /\ printed' = <<"Failed parsing arguments", "Usage">>

\* C7: the accumulation tool accepts a command line exactly when it has an
\* odd number of tokens, at least 3, and every colour token parses; it then
\* has one (path, colour) input per pair, in order, and the last token as
\* output path, for the rest of the run.  Every other command line ends the
\* run with exit code 1, a message and the usage banner, no input opened and
\* no output created.
C7_ParseArguments ==
  /\ [][(tool = "accum" /\ pc = "start") => ParseArgumentsOK]_vars
  /\ [][(pc # "start") => UNCHANGED <<imageFiles, outputName, argv>>]_vars
  /\ []((tool = "accum" /\ pc # "start" /\ imageFiles = <<>>) =>
          /\ pc = "exit"
          /\ exitCode = 1
          /\ printed = <<"Failed parsing arguments", "Usage">>
          /\ ioLog = <<>>
          /\ outFile = "absent")

\* A command line of three pairs and an output path whose last colour does
\* not parse, rejected.
C7_Witness ==
  /\ tool = "accum" /\ pc = "exit" /\ exitCode = 1
  /\ Len(argv) = 7
  /\ parseFloatColor(argv[2]).ok /\ parseFloatColor(argv[4]).ok
  /\ ~parseFloatColor(argv[6]).ok
  /\ ioLog = <<>>
  /\ printed = <<"Failed parsing arguments", "Usage">>

\* C8: the channel tool with a flag missing ends with exit code 1, no input
\* opened and no output created; otherwise combineImages gets the paths in
\* the order red, green, blue, so that the -r image fills channel 0, the -g
\* image channel 1 and the -b image channel 2.
C8_ChannelFlags ==
  (tool = "channel" /\ pc # "start") =>
    IF flags.r = <<>> \/ flags.g = <<>> \/ flags.b = <<>> \/ flags.output = <<>>
      THEN /\ pc = "exit"
           /\ exitCode = 1
           /\ ioLog = <<>>
           /\ outFile = "absent"
      ELSE /\ imageFiles = <<flags.r, flags.g, flags.b>>
           /\ (pc = "exit" /\ exitCode = 0) =>
                \A xy \in Coords(combined) :
                  LET c == outPixels[(xy[2] * combined.w) + xy[1] + 1] IN
                  /\ Covers(Files[flags.r], xy[1], xy[2]) =>
                       c.r = convertToGrayscale(PicAt(Files[flags.r], xy[1], xy[2]))
                  /\ Covers(Files[flags.g], xy[1], xy[2]) =>
                       c.g = convertToGrayscale(PicAt(Files[flags.g], xy[1], xy[2]))
                  /\ Covers(Files[flags.b], xy[1], xy[2]) =>
                       c.b = convertToGrayscale(PicAt(Files[flags.b], xy[1], xy[2]))

\* The three images given and -output missing: rejected before any open.
C8_Witness ==
  /\ tool = "channel" /\ pc = "exit" /\ exitCode = 1
  /\ flags.r = PathG /\ flags.g = PathD /\ flags.b = PathW
  /\ flags.output = <<>>
  /\ ioLog = <<>> /\ outFile = "absent"

\* The os.Open and image.Decode calls of one pass over n inputs that all
\* succeed.
RECURSIVE PassLog(_, _)
PassLog(pass, n) ==
  IF n = 0 THEN <<>>
  ELSE PassLog(pass, n - 1)
         \o <<Event("open", pass, n, TRUE), Event("decode", pass, n, TRUE)>>

\* C9: an open or decode failure, in either pass, is the last thing the run
\* does to an input: the run is over with exit code 1 and no output file,
\* and a failure of the sizing pass makes getMaxDimensions return 0, 0 and
\* an error.  No call is made twice.  The output file exists only after the
\* sizing pass and then the combination pass have each opened and decoded
\* every input successfully.
C9_FailFast ==
  /\ \A j \in 1..Len(ioLog) :
       ~ioLog[j].ok =>
         /\ j = Len(ioLog)
         /\ pc = "exit"
         /\ exitCode = 1
         /\ outFile = "absent"
         /\ outPixels = <<>>
         /\ (ioLog[j].pass = "dims") =>
              /\ dims = [w |-> 0, h |-> 0, err |-> TRUE, returned |-> TRUE]
              /\ combined = NoCanvas
  /\ \A j, k \in 1..Len(ioLog) : (j # k) => (ioLog[j] # ioLog[k])
  /\ (outFile # "absent") =>
       /\ NumInputs >= 1
       /\ ioLog = PassLog("dims", NumInputs) \o PassLog("comb", NumInputs)

\* The second input fails to decode in the combination pass, after the
\* sizing pass decoded all three inputs.
C9_Witness ==
  /\ pc = "exit" /\ exitCode = 1 /\ outFile = "absent"
  /\ NumInputs = 3
  /\ Len(ioLog) = 10
  /\ ioLog[10] = Event("decode", "comb", 2, FALSE)

\* C10: at most one input file handle is open at any time, and none is open
\* outside the span between an os.Open and the end of that iteration: not
\* when the next input is opened, not when getMaxDimensions or combineImages
\* has returned, not when the output file exists, not when the run is over.
C10_Handles ==
  /\ Len(handles) <= 1
  /\ (pc \in {"start", "dimsOpen", "combOpen", "encode", "exit"}) =>
       handles = <<>>
  /\ (pc \in {"dimsDecode", "combDecode"}) => handles = <<FileName(i)>>
  /\ (outFile # "absent") => handles = <<>>

\* The run is over after the second input failed to decode in the sizing
\* pass, with its handle closed.
C10_Witness ==
  /\ pc = "exit" /\ exitCode = 1
  /\ Len(ioLog) = 4
  /\ ioLog[4] = Event("decode", "dims", 2, FALSE)
  /\ handles = <<>>

\* The float32 sum, in argument order, of the contributions at (x, y) of
\* the first n inputs: colour times brightness for each input that covers
\* the coordinate, nothing for the others.
RECURSIVE ContributionSum(_, _, _)
ContributionSum(n, x, y) ==
  IF n = 0 THEN FCBlack
  ELSE LET prev == ContributionSum(n - 1, x, y)
           pic  == Files[imageFiles[n].filename]
           col  == imageFiles[n].colorValue
       IN IF Covers(pic, x, y)
            THEN LET br == convertToBrightness(PicAt(pic, x, y)) IN
                 FC(FAdd(prev.r, FMul(col.r, br)),
                    FAdd(prev.g, FMul(col.g, br)),
                    FAdd(prev.b, FMul(col.b, br)))
            ELSE prev

FCRed == FC(FOne, FZero, FZero)

\* Exactly two inputs, both full-brightness at (0, 0) and both red.
TwoFullRed ==
  /\ NumInputs = 2
  /\ \A k \in 1..2 :
       /\ PicAt(InputPic(k), 0, 0) = Pix(MaxChannel, MaxChannel, MaxChannel)
       /\ imageFiles[k].colorValue = FCRed

\* C2: in the accumulation tool every canvas channel is the sum of colour
\* channel times brightness over the inputs folded in so far that cover the
\* pixel; a channel that is 1.0 or more is rendered as 0xffff and no channel
\* is rendered above 0xffff; two full-brightness red inputs give
\* (0xffff, 0, 0).
C2_SumAndClamp ==
  (tool = "accum" /\ combined # NoCanvas) =>
    /\ \A xy \in Coords(combined) :
         combined.pixels[(xy[2] * combined.w) + xy[1] + 1]
           = ContributionSum(i - 1, xy[1], xy[2])
    /\ (pc = "exit" /\ exitCode = 0) =>
         /\ i - 1 = NumInputs
         /\ Len(outPixels) = Len(combined.pixels)
         /\ \A k \in 1..Len(outPixels) : \A ch \in RGB :
              /\ outPixels[k][ch] <= MaxChannel
              /\ FGeOne(combined.pixels[k][ch]) => outPixels[k][ch] = MaxChannel
         /\ TwoFullRed => outPixels[1] = Pix(MaxChannel, 0, 0)

\* Two full-brightness red inputs combined and encoded: the red channel of
\* pixel (0, 0) is 2.0 on the canvas and 0xffff in the output.
C2_Witness ==
  /\ tool = "accum" /\ pc = "exit" /\ exitCode = 0
  /\ TwoFullRed
  /\ combined.pixels[1] = FC(FFromInt(2), FZero, FZero)
  /\ outPixels[1] = Pix(MaxChannel, 0, 0)

\* combineImages of the accumulation tool on inputs that all decode, for a
\* canvas of w x h: the fold of AccumFold over the inputs in order.
RECURSIVE CombineAll(_, _, _)
CombineAll(inputs, w, h) ==
  IF Len(inputs) = 0 THEN newFloatColorImage(w, h).img
  ELSE AccumFold(CombineAll(SubSeq(inputs, 1, Len(inputs) - 1), w, h),
                 inputs[Len(inputs)])

\* C1: the output of the accumulation tool is the same for every order of
\* its inputs.
C1_OrderIndependent ==
  (tool = "accum" /\ pc = "exit" /\ exitCode = 0) =>
    \A p \in Permutations(1..NumInputs) :
      Render("accum",
             CombineAll([k \in 1..NumInputs |-> imageFiles[p[k]]],
                        dims.w, dims.h)) = outPixels

---------------------------------------------------------------------------
(* The colour parser by itself: parseFloatColor applied to one token.      *)

\* A token is a seed followed by at most MaxSuffix characters of
\* SuffixChars, or one of ExampleTokens.
MaxSuffix == 2

SuffixChars == {"0", "f", "F", "#", "g", "d"}

SeedTokens ==
  { <<>>, <<"#">>, <<"r","e">>, <<"R","E">>,
    <<"f","f","0","0">>, <<"#","f","f","0","0">>, <<"#","#","f","f","0">>,
    <<"f","f","f","f","0","0","0","0","0","0">>,
    <<"#","f","f","f","f","0","0","0","0","0","0">> }

ExampleTokens ==
  { <<"r","e","d">>, <<"f","f","0","0","0","0">>,
    <<"#","f","f","0","0","0","0">>,
    <<"f","f","f","f","0","0","0","0","0","0","0","0">>,
    <<"x","y","z","1","2","3">>, <<"f","f","0","0","0">>,
    <<"B","l","u","e","V","i","o","l","e","t">>, <<"#","r","e","d">>,
    <<"0","0","8","0","0","0">>, <<"g","r","e","e","n">> }

RECURSIVE Suffixes(_)
Suffixes(n) ==
  IF n = 0 THEN {<<>>}
  ELSE Suffixes(n - 1)
         \cup {Append(t, c) : t \in Suffixes(n - 1), c \in SuffixChars}

Tokens ==
  ExampleTokens \cup {seed \o t : seed \in SeedTokens, t \in Suffixes(MaxSuffix)}

InitParser ==
  /\ tool = "parser" /\ argv = <<>> /\ flags = NoFlags
  /\ RunInit
  /\ token \in Tokens
  /\ parseResult = <<>>
  /\ CanvasIdle

\* One call of parseFloatColor.
ParseToken ==
  /\ parseResult = <<>>
  /\ parseResult' = <<parseFloatColor(token)>>
  /\ UNCHANGED <<token, cmdVars, runVars, canvasVars>>

NextParser == ParseToken

SpecParser == InitParser /\ [][NextParser]_vars

HexChars == {"0","1","2","3","4","5","6","7","8","9",
             "a","b","c","d","e","f","A","B","C","D","E","F"}

IsColorName(t) == ToLower(t) \in DOMAIN colornamesMap

\* t is, after one optional leading '#', exactly 6 or exactly 12 hex digits.
IsHexColor(t) ==
  LET body == IF Len(t) >= 1 /\ t[1] = "#" THEN SubSeq(t, 2, Len(t)) ELSE t
  IN /\ Len(body) \in {6, 12}
     /\ \A k \in 1..Len(body) : body[k] \in HexChars

\* C6: parseFloatColor succeeds exactly on a colour name (in any case) and
\* on 6 or 12 hex digits after one optional '#'; "red", "ff0000", "#ff0000"
\* and "ffff00000000" all parse to (1, 0, 0), and a name parses to the same
\* colour as its hex value.
C6_ParseFloatColor ==
  (parseResult # <<>>) =>
    /\ parseResult[1].ok <=> (IsColorName(token) \/ IsHexColor(token))
    /\ (~parseResult[1].ok) => parseResult[1].c = FCBlack
    /\ (token \in { <<"r","e","d">>, <<"f","f","0","0","0","0">>,
                    <<"#","f","f","0","0","0","0">>,
                    <<"f","f","f","f","0","0","0","0","0","0","0","0">> })
         => parseResult = <<ParseOk(FCRed)>>
    /\ (token \in { <<"g","r","e","e","n">>, <<"0","0","8","0","0","0">> })
         => parseResult = <<ParseOk(FC(FZero, FDivInt(128, 255), FZero))>>

\* "#ff0000" parsed to full red.
C6_Witness ==
  /\ token = <<"#","f","f","0","0","0","0">>
  /\ parseResult = <<ParseOk(FCRed)>>

---------------------------------------------------------------------------
(* The canvas by itself: a floatColorImage of any positive size up to      *)
(* MaxDim x MaxDim and at most MaxOps operations on it, each a call of     *)
(* floatColorImage.Add at a coordinate inside or outside the bounds, or an *)
(* addColor pass of a picture that may be smaller or larger than the       *)
(* canvas.                                                                 *)

MaxDim == 2
MaxOps == 2

White == Pix(MaxChannel, MaxChannel, MaxChannel)

CanvasPics == { Img(1, 1, <<White>>), Files[PathD], Files[PathW] }

InitCanvas ==
  /\ tool = "canvas" /\ argv = <<>> /\ flags = NoFlags
  /\ RunInit
  /\ ParserIdle
  /\ \E w \in 1..MaxDim, h \in 1..MaxDim : cv = newFloatColorImage(w, h).img
  /\ cvOps = <<>>

\* floatColorImage.Add(x, y, red)
CanvasAdd ==
  /\ Len(cvOps) < MaxOps
  /\ \E x \in (-1)..MaxDim, y \in (-1)..MaxDim :
       /\ cv' = floatColorImageAdd(cv, x, y, FCRed)
       /\ cvOps' = Append(cvOps, [op |-> "Add", x |-> x, y |-> y])
  /\ UNCHANGED <<cmdVars, runVars, parserVars>>

\* addColor(cv, pic, red)
CanvasAddColor ==
  /\ Len(cvOps) < MaxOps
  /\ \E pic \in CanvasPics :
       /\ cv' = addColor(cv, pic, FCRed)
       /\ cvOps' = Append(cvOps, [op |-> "addColor", pic |-> pic])
  /\ UNCHANGED <<cmdVars, runVars, parserVars>>

NextCanvas == CanvasAdd \/ CanvasAddColor

SpecCanvas == InitCanvas /\ [][NextCanvas]_vars

\* The coordinates an operation may write.
OpCovers(o, x, y) ==
  IF o.op = "Add" THEN x = o.x /\ y = o.y ELSE Covers(o.pic, x, y)

CvPixel(img, x, y) == img.pixels[(y * img.w) + x + 1]

\* What the operation just applied did to the canvas.
CanvasStepOK ==
  LET o == cvOps'[Len(cvOps')] IN
  /\ cv'.w = cv.w /\ cv'.h = cv.h /\ Len(cv'.pixels) = Len(cv.pixels)
  /\ \A xy \in Coords(cv) :
       IF OpCovers(o, xy[1], xy[2])
         THEN LET br == IF o.op = "Add" THEN FOne
                        ELSE convertToBrightness(PicAt(o.pic, xy[1], xy[2]))
              IN CvPixel(cv', xy[1], xy[2]).r
                   = FAdd(CvPixel(cv, xy[1], xy[2]).r, FMul(FOne, br))
         ELSE CvPixel(cv', xy[1], xy[2]) = CvPixel(cv, xy[1], xy[2])
  /\ (o.op = "Add" /\ ~Covers(cv, o.x, o.y)) => cv' = cv

\* A coordinate no operation covered renders black; a 1x1 full-brightness
\* red pass alone on a 2x2 canvas gives red at (0, 0) and black elsewhere.
CanvasBlackOK ==
  /\ \A xy \in Coords(cv) :
       (\A k \in 1..Len(cvOps) : ~OpCovers(cvOps[k], xy[1], xy[2])) =>
         floatColorImageAtRGBA(cv, xy[1], xy[2]) = Pix(0, 0, 0)
  /\ (cv.w = 2 /\ cv.h = 2
        /\ cvOps = <<[op |-> "addColor", pic |-> Img(1, 1, <<White>>)]>>) =>
       /\ floatColorImageAtRGBA(cv, 0, 0) = Pix(MaxChannel, 0, 0)
       /\ floatColorImageAtRGBA(cv, 1, 0) = Pix(0, 0, 0)
       /\ floatColorImageAtRGBA(cv, 0, 1) = Pix(0, 0, 0)
       /\ floatColorImageAtRGBA(cv, 1, 1) = Pix(0, 0, 0)

\* C3: an addColor pass of a w x h input changes only the canvas pixels
\* (x, y) with 0 <= x < w and 0 <= y < h; floatColorImage.Add outside the
\* bounds changes nothing; a coordinate that nothing covered is black in
\* the output, as in the 1x1 red input on a 2x2 canvas.
C3_Frame ==
  /\ [][CanvasStepOK]_vars
  /\ []CanvasBlackOK

\* A 2x2 canvas after an Add outside its bounds and a 1x1 full-brightness
\* red pass: red at (0, 0), black at the other three coordinates.
C3_Witness ==
  /\ cv.w = 2 /\ cv.h = 2
  /\ cvOps = <<[op |-> "Add", x |-> 2, y |-> 0],
               [op |-> "addColor", pic |-> Img(1, 1, <<White>>)]>>
  /\ floatColorImageAtRGBA(cv, 0, 0) = Pix(MaxChannel, 0, 0)
  /\ \A xy \in Coords(cv) \ {<<0, 0>>} :
       floatColorImageAtRGBA(cv, xy[1], xy[2]) = Pix(0, 0, 0)

=============================================================================
